---- MODULE Spec2Model ----
(***************************************************************************)
(* Model of cog1/raster.js: the Bresenham line rasterizer, the edge        *)
(* assembler, the scanline intersection table and the scanline fill of the *)
(* software rendering pipeline.                                            *)
(*                                                                         *)
(* The framebuffer, the shader and the data module are collaborators: the  *)
(* calls raster.js makes to them are recorded, in order, in fbCalls,       *)
(* dirtyCalls and shaderCalls; the normal that                             *)
(* data.calculateNormalForPolygon returns is an input of the call.         *)
(* Floating point numbers are modelled as exact rationals <<n, d>>.        *)
(***************************************************************************)
EXTENDS Integers, Sequences, FiniteSets, TLC

VARIABLES
    width,                \* raster.js:10, set by init() from ctx.width
    height,               \* raster.js:11, set by init() from ctx.height
    plane,                \* raster.js:14-22, A B C D inverseC AdivC
    scanlineIntersection, \* raster.js:33, one list of records per row y
    rgbaShaded,           \* color.rgbaShaded of the color object in use
    fbCalls,              \* framebuffer.set calls of the most recent call
    dirtyCalls,           \* framebuffer.adjustDirtyRectangle calls of the same
    shaderCalls,          \* shader callbacks invoked by the most recent call
    calls,                \* the public calls made so far, the last is the most recent
    pc,                   \* position inside the call in progress
    frame                 \* local variables of the call in progress

vars == <<width, height, plane, scanlineIntersection, rgbaShaded, fbCalls,
          dirtyCalls, shaderCalls, calls, pc, frame>>

----------------------------------------------------------------------------
(* Bounds of the model. *)

\* largest vertex coordinate of the exhaustive polygon and line inputs; the
\* screen of those inputs is MaxCoord x MaxCoord, so that coordinate MaxCoord
\* and coordinate -1 lie off screen on either side
MaxCoord == 3
\* largest vertex coordinate of the inputs of the step-by-step specification
MaxStepCoord == 2
\* number of public calls in one behaviour of Spec
MaxCalls == 2

----------------------------------------------------------------------------
(* Numbers: JavaScript numbers as exact rationals <<n, d>>, d > 0, in      *)
(* lowest terms; <<0, 0>> stands for a non-finite result (NaN, Infinity)   *)
(* and for the arithmetic value of undefined.                              *)

\* Every operation binds each operand to its value once (x \in {r}) before it
\* uses it: a JavaScript call evaluates its arguments once, on entry.

Abs(n) == IF n < 0 THEN 0 - n ELSE n

RECURSIVE Gcd(_, _)
Gcd(a, b) == IF b = 0 THEN a ELSE CHOOSE g \in {Gcd(y, x % y) : x \in {a}, y \in {b}} : TRUE

NaN == <<0, 0>>

Reduced(n, d) ==
    IF d = 0 THEN NaN
    ELSE LET g == Gcd(Abs(n), Abs(d))
             s == IF d < 0 THEN 0 - 1 ELSE 1
         IN  <<(s * n) \div g, Abs(d) \div g>>
Rat(n, d) == CHOOSE v \in {Reduced(x, y) : x \in {n}, y \in {d}} : TRUE

RInt(k) == <<k, 1>>
IsFinite(r) == r[2] # 0
RNeg(r) == CHOOSE v \in {IF IsFinite(x) THEN <<0 - x[1], x[2]>> ELSE NaN : x \in {r}} : TRUE
RAdd(r, q) ==
    CHOOSE v \in {IF IsFinite(x) /\ IsFinite(y) THEN Rat(x[1] * y[2] + y[1] * x[2], x[2] * y[2]) ELSE NaN : x \in {r}, y \in {q}} : TRUE
RMul(r, q) ==
    CHOOSE v \in {IF IsFinite(x) /\ IsFinite(y) THEN Rat(x[1] * y[1], x[2] * y[2]) ELSE NaN : x \in {r}, y \in {q}} : TRUE
RDiv(r, q) ==
    CHOOSE v \in {IF IsFinite(x) /\ IsFinite(y) THEN Rat(x[1] * y[2], x[2] * y[1]) ELSE NaN : x \in {r}, y \in {q}} : TRUE
\* r < q; every comparison with a non-finite number is false
RLess(r, q) == \E x \in {r}, y \in {q} : IsFinite(x) /\ IsFinite(y) /\ x[1] * y[2] < y[1] * x[2]
RAbs(r) == CHOOSE v \in {IF IsFinite(x) THEN <<Abs(x[1]), x[2]>> ELSE NaN : x \in {r}} : TRUE

\* Math.floor(v): the largest integer <= v
MathFloor(r) == r[1] \div r[2]
\* ~~v: v truncated toward zero
ToInt32(r) == IF r[1] >= 0 THEN r[1] \div r[2] ELSE 0 - ((0 - r[1]) \div r[2])

\* the value of a parameter that the caller did not pass
Undefined == 0 - 1

\* polygon[i] of the source, i counted from 0
At(polygon, i) == polygon[i + 1]

----------------------------------------------------------------------------
(* The module state threaded through one call: a record m with the fields  *)
(* plane, scanlineIntersection, rgbaShaded, fbCalls, dirtyCalls,           *)
(* shaderCalls.                                                            *)

\* epsilon of calcPlaneEquation
epsilon == <<1, 1000>>

\* raster.js:14-22: A = B = C = D = 1, inverseC and AdivC not yet assigned
InitPlane == [A |-> RInt(1), B |-> RInt(1), C |-> RInt(1), D |-> RInt(1),
              inverseC |-> NaN, AdivC |-> NaN]

\* the table with no record: row y of the source is element y + 1
EmptyTable(h) == [y \in 1..h |-> <<>>]

\* scanlineIntersection[y] of the source
Row(t, y) == t[y + 1]

\* clearIntersections(): scanlineIntersection = []
clearIntersections(m) == [m EXCEPT !.scanlineIntersection = EmptyTable(height)]

\* framebuffer.set behind a test of the screen: a pixel off the screen is not
\* written
framebufferSetOnScreen(m, x, y, z, applyDepthTest) ==
    IF (0 <= x) /\ (x < width) /\ (0 <= y) /\ (y < height)
    THEN [m EXCEPT !.fbCalls = Append(@, [x |-> x, y |-> y, z |-> z,
                                          applyDepthTest |-> applyDepthTest])]
    ELSE m

\* framebuffer.set(x, y, z, color, applyDepthTest)
framebufferSet(m, x, y, z, applyDepthTest) ==
    [m EXCEPT !.fbCalls = Append(@, [x |-> x, y |-> y, z |-> z,
                                     applyDepthTest |-> applyDepthTest])]

\* addIntersection with the record holding the x that raster.js:665-670 clamps
\* for the dirty rectangle
addIntersectionClamped(m, x, y, z, interpolationWeight, edgeStartVertexIndex, edgeEndVertexIndex, edgeStartTextureCoord, edgeEndTextureCoord) ==
    IF y < 0 \/ y >= height
    THEN m
    ELSE LET xc == IF x < 0 THEN 0 ELSE IF x >= width THEN width - 1 ELSE x
         IN  [m EXCEPT
                !.scanlineIntersection[y + 1] = Append(@,
                    [x |-> xc, z |-> z,
                     edgeStartVertexIndex |-> edgeStartVertexIndex,
                     edgeEndVertexIndex |-> edgeEndVertexIndex,
                     edgeStartTextureCoord |-> edgeStartTextureCoord,
                     edgeEndTextureCoord |-> edgeEndTextureCoord,
                     interpolationWeight |-> interpolationWeight]),
                !.dirtyCalls = Append(@, <<xc, y>>)]

\* addIntersection(x, y, z, interpolationWeight, edgeStartVertexIndex, ...)
addIntersection(m, x, y, z, interpolationWeight, edgeStartVertexIndex, edgeEndVertexIndex, edgeStartTextureCoord, edgeEndTextureCoord) ==
    IF y < 0 \/ y >= height
    THEN m
    ELSE LET xc == IF x < 0 THEN 0 ELSE IF x >= width THEN width - 1 ELSE x
         IN  [m EXCEPT
                !.scanlineIntersection[y + 1] = Append(@,
                    [x |-> x, z |-> z,
                     edgeStartVertexIndex |-> edgeStartVertexIndex,
                     edgeEndVertexIndex |-> edgeEndVertexIndex,
                     edgeStartTextureCoord |-> edgeStartTextureCoord,
                     edgeEndTextureCoord |-> edgeEndTextureCoord,
                     interpolationWeight |-> interpolationWeight]),
                !.dirtyCalls = Append(@, <<xc, y>>)]

----------------------------------------------------------------------------
(* drawLineBresenham *)

\* raster.js:88-119 and the initial decision variable of 133 / 153: the local
\* variables of drawLineBresenham on entry of its loop
LineFrame(startX, startY, startZ, endX, endY, endZ, edgeStartVertexIndex, edgeEndVertexIndex) ==
    LET dX == endX - startX
        dY == endY - startY
        dXAbs == Abs(dX)
        dYAbs == Abs(dY)
    IN  [startX |-> startX, startY |-> startY, endX |-> endX, endY |-> endY,
         dXAbs |-> dXAbs, dYAbs |-> dYAbs,
         dXSign |-> IF dX >= 0 THEN 1 ELSE 0 - 1,
         dYSign |-> IF dY >= 0 THEN 1 ELSE 0 - 1,
         dXAbs2 |-> 2 * dXAbs, dYAbs2 |-> 2 * dYAbs,
         dXdYdiff2 |-> 2 * (dXAbs - dYAbs),
         dYdXdiff2 |-> 2 * (dYAbs - dXAbs),
         edgeStartVertexIndex |-> edgeStartVertexIndex,
         edgeEndVertexIndex |-> edgeEndVertexIndex,
         interpolationWeight |-> 0,
         x |-> startX, y |-> startY, z |-> startZ,
         e |-> IF dXAbs >= dYAbs THEN dXAbs - 2 * dYAbs ELSE dYAbs - 2 * dXAbs]

\* IsPoint without the test of raster.js:127: no line returns before the loop
IsPointNever(f) == FALSE

\* raster.js:127: the line is just a point
IsPoint(f) == (f.dXAbs = 0) /\ (f.dYAbs = 0)

\* raster.js:131: x is the driving variable
XDriving(f) == f.dXAbs >= f.dYAbs

\* the loop conditions of raster.js:135 and 156
LoopCond(f) == IF XDriving(f) THEN f.x # f.endX ELSE f.y # f.endY

\* one iteration of the loop with x as driving variable, raster.js:136-149
XStep(f, m) ==
    LET x1 == f.x + f.dXSign
        yChanges == ~(f.e > 0)
        y1 == IF yChanges THEN f.y + f.dYSign ELSE f.y
        e1 == IF yChanges THEN f.e + f.dXdYdiff2 ELSE f.e - f.dYAbs2
        m1 == IF yChanges /\ (y1 # f.startY) /\ (y1 # f.endY)
              THEN addIntersection(m, x1, y1, f.z, f.interpolationWeight,
                                   f.edgeStartVertexIndex, f.edgeEndVertexIndex,
                                   Undefined, Undefined)
              ELSE m
    IN  [f |-> [f EXCEPT !.x = x1, !.y = y1, !.e = e1],
         m |-> framebufferSet(m1, x1, y1, f.z, FALSE)]

\* one iteration of the loop with y as driving variable, raster.js:157-169
YStep(f, m) ==
    LET y1 == f.y + f.dYSign
        xChanges == ~(f.e > 0)
        x1 == IF xChanges THEN f.x + f.dXSign ELSE f.x
        e1 == IF xChanges THEN f.e + f.dYdXdiff2 ELSE f.e - f.dXAbs2
        m1 == IF (y1 # f.startY) /\ (y1 # f.endY)
              THEN addIntersection(m, x1, y1, f.z, f.interpolationWeight,
                                   f.edgeStartVertexIndex, f.edgeEndVertexIndex,
                                   Undefined, Undefined)
              ELSE m
    IN  [f |-> [f EXCEPT !.x = x1, !.y = y1, !.e = e1],
         m |-> framebufferSet(m1, x1, y1, f.z, FALSE)]

LoopStep(f, m) == IF XDriving(f) THEN XStep(f, m) ELSE YStep(f, m)

\* the while loops of raster.js:135-150 and 156-171, run to their end
RECURSIVE BresenhamLoop(_, _)
BresenhamLoop(f, m) ==
    IF LoopCond(f)
    THEN LET r == LoopStep(f, m) IN BresenhamLoop(r.f, r.m)
    ELSE m

\* Normalized without the exchange of raster.js:77-79: the line is walked from
\* the start point it is given
NormalizedNoExchange(startX, startY, startZ, endX, endY, endZ, edgeStartVertexIndex, edgeEndVertexIndex) ==
    LineFrame(startX, startY, startZ, endX, endY, endZ,
              edgeStartVertexIndex, edgeEndVertexIndex)

\* raster.js:77-79: the end points in the order in which the line is walked
Normalized(startX, startY, startZ, endX, endY, endZ, edgeStartVertexIndex, edgeEndVertexIndex) ==
    IF endX < startX
    THEN LineFrame(endX, endY, endZ, startX, startY, startZ,
                   edgeEndVertexIndex, edgeStartVertexIndex)
    ELSE LineFrame(startX, startY, startZ, endX, endY, endZ,
                   edgeStartVertexIndex, edgeEndVertexIndex)

\* raster.js:81-86: without the flag rgbaShaded is reset to rgba
ResetShaded(m, storeIntersectionForScanlineFill) ==
    IF storeIntersectionForScanlineFill THEN m ELSE [m EXCEPT !.rgbaShaded = "rgba"]

\* drawLineBresenham(startX, ..., edgeEndVertexIndex); the texture coordinates
\* it is passed are exchanged at 78 and never read, so they are left out
drawLineBresenham(m, startX, startY, startZ, endX, endY, endZ, storeIntersectionForScanlineFill, edgeStartVertexIndex, edgeEndVertexIndex) ==
    LET f == Normalized(startX, startY, startZ, endX, endY, endZ,
                        edgeStartVertexIndex, edgeEndVertexIndex)
        m0 == ResetShaded(m, storeIntersectionForScanlineFill)
    IN  IF IsPoint(f) THEN m0 ELSE BresenhamLoop(f, m0)

\* drawLineBresenhamGivenStartEndPoint(st, end, color)
drawLineBresenhamGivenStartEndPoint(m, st, end) ==
    drawLineBresenham(m, ToInt32(st[1]), ToInt32(st[2]), st[3],
                      ToInt32(end[1]), ToInt32(end[2]), end[3],
                      TRUE, Undefined, Undefined)

\* scanlineStrokePolygon(vertices, polygon, color): the edges from v on
RECURSIVE StrokeFrom(_, _, _, _)
StrokeFrom(m, vertices, polygon, v) ==
    IF v < Len(polygon)
    THEN LET nextVertexIndex == IF v < Len(polygon) - 1 THEN v + 1 ELSE 0
             start == vertices[At(polygon, v)]
             end == vertices[At(polygon, nextVertexIndex)]
         IN  StrokeFrom(drawLineBresenhamGivenStartEndPoint(m, start, end),
                        vertices, polygon, v + 1)
    ELSE m

scanlineStrokePolygon(m, vertices, polygon) == StrokeFrom(m, vertices, polygon, 0)

----------------------------------------------------------------------------
(* The plane of the polygon *)

\* calcPlaneEquation with raster.js:594 ahead of raster.js:585: inverseC is
\* taken from the C of the polygon before
calcPlaneEquationStaleC(m, vertices, polygon, normal) ==
    LET a == normal[1]
        b == normal[2]
        c == normal[3]
        p == At(polygon, 0)
        x == vertices[p][1]
        y == vertices[p][2]
        z == vertices[p][3]
    IN  IF RLess(RAbs(c), epsilon)
        THEN [ok |-> FALSE,
              m |-> [m EXCEPT !.plane.A = a, !.plane.B = b, !.plane.C = c]]
        ELSE [ok |-> TRUE,
              m |-> [m EXCEPT !.plane =
                       [A |-> a, B |-> b, C |-> c,
                        inverseC |-> RDiv(RInt(1), m.plane.C),
                        AdivC |-> RDiv(a, c),
                        D |-> RNeg(RAdd(RAdd(RMul(a, x), RMul(b, y)), RMul(c, z)))]]]

\* calcPlaneEquation(vertices, polygon, normal): [ok, m]; normal is the vector
\* that data.calculateNormalForPolygon hands back
calcPlaneEquation(m, vertices, polygon, normal) ==
    LET a == normal[1]
        b == normal[2]
        c == normal[3]
        p == At(polygon, 0)
        x == vertices[p][1]
        y == vertices[p][2]
        z == vertices[p][3]
    IN  IF RLess(RAbs(c), epsilon)
        THEN [ok |-> FALSE,
              m |-> [m EXCEPT !.plane.A = a, !.plane.B = b, !.plane.C = c]]
        ELSE [ok |-> TRUE,
              m |-> [m EXCEPT !.plane =
                       [A |-> a, B |-> b, C |-> c,
                        inverseC |-> RDiv(RInt(1), c),
                        AdivC |-> RDiv(a, c),
                        D |-> RNeg(RAdd(RAdd(RMul(a, x), RMul(b, y)), RMul(c, z)))]]]

\* getZ(x, y)
getZ(m, x, y) ==
    RMul(RNeg(RAdd(RAdd(RMul(m.plane.A, RInt(x)), RMul(m.plane.B, RInt(y))),
                   m.plane.D)),
         m.plane.inverseC)

----------------------------------------------------------------------------
(* The edge assembler *)

\* getDerivativeSign(currY, nextY)
getDerivativeSign(currY, nextY) ==
    IF RLess(currY, nextY) THEN 0 - 1
    ELSE IF RLess(nextY, currY) THEN 1
    ELSE 0

\* raster.js:232-243: the derivative of the last edge that is not horizontal,
\* searched from edge i downwards; 0 stands for 0 and for undefined
RECURSIVE LastDerivative(_, _, _)
LastDerivative(vertices, polygon, i) ==
    IF i > 0
    THEN LET vert == vertices[At(polygon, i)]
             other == IF i = Len(polygon) - 1
                      THEN vertices[At(polygon, 0)]
                      ELSE vertices[At(polygon, i + 1)]
             d == getDerivativeSign(vert[2], other[2])
         IN  IF d # 0 THEN d ELSE LastDerivative(vertices, polygon, i - 1)
    ELSE 0

\* raster.js:261-279: the local variables of the edge that starts at polygon[i]
EdgeOf(vertices, polygon, i) ==
    LET j == IF i = Len(polygon) - 1 THEN 0 ELSE i + 1
        currY == MathFloor(vertices[At(polygon, i)][2])
        nextY == MathFloor(vertices[At(polygon, j)][2])
    IN  [currX |-> MathFloor(vertices[At(polygon, i)][1]),
         currY |-> currY,
         nextX |-> MathFloor(vertices[At(polygon, j)][1]),
         nextY |-> nextY,
         edgeStartVertexIndex |-> At(polygon, i),
         edgeEndVertexIndex |-> At(polygon, j),
         derivative |-> getDerivativeSign(RInt(currY), RInt(nextY))]

\* VertexRecords without the second record of raster.js:284-286 at a vertex
\* where the direction reverses
VertexRecordsNoDoubling(m, ed, lastDerivative) ==
    addIntersection(m, ed.nextX, ed.nextY, RInt(0), 0,
                    ed.edgeStartVertexIndex, ed.edgeEndVertexIndex, 0, 0)

\* raster.js:283-286: the records of the vertices of an edge, added once the
\* edge is drawn
VertexRecords(m, ed, lastDerivative) ==
    LET m1 == addIntersection(m, ed.nextX, ed.nextY, RInt(0), 0,
                              ed.edgeStartVertexIndex, ed.edgeEndVertexIndex, 0, 0)
    IN  IF (lastDerivative + ed.derivative = 0) /\ (ed.derivative # 0)
        THEN addIntersection(m1, ed.currX, ed.currY, RInt(0), 0,
                             ed.edgeStartVertexIndex, ed.edgeEndVertexIndex, 0, 0)
        ELSE m1

\* raster.js:282: the edge is drawn, without the flag
DrawEdge(m, ed) ==
    drawLineBresenham(m, ed.currX, ed.currY, RInt(0), ed.nextX, ed.nextY, RInt(0),
                      FALSE, ed.edgeStartVertexIndex, ed.edgeEndVertexIndex)

\* raster.js:258-293: the loop over the edges, from edge i on
RECURSIVE AssembleFrom(_, _, _, _, _)
AssembleFrom(m, vertices, polygon, i, lastDerivative) ==
    IF i < Len(polygon)
    THEN LET ed == EdgeOf(vertices, polygon, i)
         IN  IF ed.derivative = 0
             THEN AssembleFrom(m, vertices, polygon, i + 1, lastDerivative)
             ELSE AssembleFrom(VertexRecords(DrawEdge(m, ed), ed, lastDerivative),
                               vertices, polygon, i + 1, ed.derivative)
    ELSE m

\* assembleIntersectionForScanline(vertices, polygon, color, ...)
assembleIntersectionForScanline(m, vertices, polygon, normal) ==
    LET r == calcPlaneEquation(clearIntersections(m), vertices, polygon, normal)
        lastDerivative == LastDerivative(vertices, polygon, Len(polygon) - 1)
    IN  IF ~r.ok THEN r.m
        ELSE IF lastDerivative = 0 THEN r.m
        ELSE AssembleFrom(r.m, vertices, polygon, 0, lastDerivative)

----------------------------------------------------------------------------
(* Interpolation on a scanline *)

\* interpolationPrepareScanline(startIntersection, endIntersection, texture):
\* the call of the prepare callback of the shader, raster.js:339. No line of
\* raster.js calls this function
interpolationPrepareScanline(m, startIntersection, endIntersection) == [m EXCEPT !.shaderCalls = Append(@, [fn |-> "prepareScanline", vertexIndices |-> <<startIntersection.edgeStartVertexIndex, startIntersection.edgeEndVertexIndex, endIntersection.edgeStartVertexIndex, endIntersection.edgeEndVertexIndex>>, weights |-> <<1 - startIntersection.interpolationWeight, startIntersection.interpolationWeight, 1 - endIntersection.interpolationWeight, endIntersection.interpolationWeight>>, deltaX |-> endIntersection.x - startIntersection.x])]

\* interpolationStepOnScanline(texture): the call of the step callback of the
\* shader, raster.js:393. No line of raster.js calls this function
interpolationStepOnScanline(m) == [m EXCEPT !.shaderCalls = Append(@, [fn |-> "stepOnScanline", vertexIndices |-> <<>>, weights |-> <<>>, deltaX |-> 0])]

----------------------------------------------------------------------------
(* The scanline fill *)

\* raster.js:456: the safety check of a row
Malformed(line) == (Len(line) < 2) \/ (Len(line) % 2 # 0)

RemoveAt(line, c) == SubSeq(line, 1, c - 1) \o SubSeq(line, c + 1, Len(line))

\* raster.js:463: line.sort((a, b) => (a.x > b.x) ? 1 : -1). The comparator
\* orders no two records with the same x, so every order of such records is
\* a possible result: the set of the ascending orders of line
RECURSIVE SortOutcomes(_)
SortOutcomes(line) ==
    IF Len(line) = 0 THEN {<<>>}
    ELSE LET least == {c \in 1..Len(line) :
                          \A d \in 1..Len(line) : line[c].x <= line[d].x}
         IN  UNION {{<<line[c]>> \o rest : rest \in SortOutcomes(RemoveAt(line, c))} :
                    c \in least}

\* raster.js:452-463: row y as the fill leaves it; a row that fails the
\* safety check is not sorted
RowOutcomes(line) == IF Malformed(line) THEN {line} ELSE SortOutcomes(line)

\* the tables whose rows 0..n-1 are the rows of t as the fill leaves them
RECURSIVE SortedTables(_, _)
SortedTables(t, n) ==
    IF n = 0 THEN {<<>>}
    ELSE {Append(rows, line) : rows \in SortedTables(t, n - 1),
                               line \in RowOutcomes(Row(t, n - 1))}

\* one pass of the loop over x, raster.js:471-473; the result of the
\* horizontal clipping test of 472 is not read
FillPixel(m, x, y) == framebufferSet(m, x, y, getZ(m, x, y), TRUE)

\* raster.js:470-474: the pixels from x up to xEnd, xEnd excluded
RECURSIVE FillSpan(_, _, _, _)
FillSpan(m, x, xEnd, y) ==
    IF x < xEnd THEN FillSpan(FillPixel(m, x, y), x + 1, xEnd, y) ELSE m

\* raster.js:468-475: the pairs of the sorted row y, from record i on
RECURSIVE FillPairs(_, _, _)
FillPairs(m, y, i) ==
    LET line == Row(m.scanlineIntersection, y)
    IN  IF i < Len(line) - 1
        THEN FillPairs(FillSpan(m, At(line, i).x, At(line, i + 1).x, y), y, i + 2)
        ELSE m

\* raster.js:451-476: the rows from y on
RECURSIVE FillRows(_, _)
FillRows(m, y) ==
    IF y < height
    THEN IF Malformed(Row(m.scanlineIntersection, y))
         THEN FillRows(m, y + 1)
         ELSE FillRows(FillPairs(m, y, 0), y + 1)
    ELSE m

\* scanlineFillPolygon(vertices, polygon, color, ...): the set of its results,
\* one for each result of the sort of the rows
scanlineFillPolygon(m, vertices, polygon, normal) ==
    LET m1 == assembleIntersectionForScanline(m, vertices, polygon, normal)
    IN  {FillRows([m1 EXCEPT !.scanlineIntersection = t], 0) :
         t \in SortedTables(m1.scanlineIntersection, height)}

----------------------------------------------------------------------------
(* Inputs *)

Pt(x, y, z) == <<RInt(x), RInt(y), RInt(z)>>

\* the vertices array of the data module: index, counted from 0, to vertex
Vs(seq) == [i \in 0..(Len(seq) - 1) |-> seq[i + 1]]

\* the polygon whose vertices are the first n of the vertices array
RECURSIVE Indices(_)
Indices(n) == IF n = 0 THEN <<>> ELSE Append(Indices(n - 1), n - 1)

Input(seq, normal) ==
    [vertices |-> Vs(seq), polygon |-> Indices(Len(seq)), normal |-> normal]

NormalZ == <<RInt(0), RInt(0), RInt(1)>>
NoNormal == <<RInt(0), RInt(0), RInt(0)>>

\* the square of 4 x 4 with depth 0
SquareInput == Input(<<Pt(0, 0, 0), Pt(4, 0, 0), Pt(4, 4, 0), Pt(0, 4, 0)>>, NormalZ)

\* a polygon whose plane is seen edge-on: its normal has C = 0
EdgeOnInput ==
    Input(<<Pt(1, 0, 0), Pt(1, 4, 0), Pt(1, 2, 3)>>, <<RInt(1), RInt(0), RInt(0)>>)

\* a polygon whose normal has 0 < |C| < epsilon
NearlyEdgeOnInput ==
    Input(<<Pt(1, 0, 0), Pt(1, 4, 0), Pt(2, 2, 0 - 2000)>>,
          <<RInt(1), RInt(0), <<1, 2000>>>>)

\* the polygons of the calls of Spec, each with the normal of its plane
SampleInputs ==
    { SquareInput,
      EdgeOnInput,
      NearlyEdgeOnInput,
      \* a triangle with a horizontal edge
      Input(<<Pt(0, 0, 0), Pt(4, 0, 0), Pt(2, 3, 0)>>, NormalZ),
      \* a triangle in the plane z = x
      Input(<<Pt(1, 1, 1), Pt(5, 2, 5), Pt(2, 5, 2)>>,
            <<RInt(0 - 1), RInt(0), RInt(1)>>),
      \* a triangle with two coincident vertices
      Input(<<Pt(1, 1, 0), Pt(1, 1, 0), Pt(3, 4, 0)>>, NoNormal),
      \* a triangle whose coordinates are not integers
      Input(<<<<<<1, 2>>, <<1, 2>>, RInt(0)>>, <<<<7, 2>>, <<3, 2>>, RInt(0)>>,
              <<<<3, 2>>, <<7, 2>>, RInt(0)>>>>, NormalZ),
      \* a triangle that extends beyond the screen on every side
      Input(<<Pt(0 - 2, 1, 0), Pt(7, 2, 0), Pt(3, 7, 0)>>, NormalZ) }

\* the lines of the drawLineBresenhamGivenStartEndPoint calls of Spec
SampleLines ==
    { Input(<<Pt(0, 0, 0), Pt(4, 2, 0)>>, NoNormal),
      Input(<<Pt(3, 5, 1), Pt(3, 1, 0)>>, NoNormal),
      Input(<<Pt(2, 2, 0), Pt(2, 2, 0)>>, NoNormal),
      Input(<<<<<<0 - 1, 2>>, <<9, 2>>, RInt(0)>>, Pt(5, 0, 2)>>, NoNormal) }

\* the coordinates of the exhaustive inputs
Coords == (0 - 1)..MaxCoord
GridPoints == {Pt(x, y, 0) : x \in Coords, y \in Coords}
GridTriangles ==
    {Input(<<a, b, c>>, n) : a \in GridPoints, b \in GridPoints, c \in GridPoints,
                             n \in {NormalZ, NoNormal}}
GridLines == {Input(<<a, b>>, NoNormal) : a \in GridPoints, b \in GridPoints}

----------------------------------------------------------------------------
(* The public operations, each one call *)

NoFrame == [kind |-> "none"]

\* the module state at the start of a call; the records of the calls to the
\* collaborators start empty
M == [plane |-> plane, scanlineIntersection |-> scanlineIntersection,
      rgbaShaded |-> rgbaShaded, fbCalls |-> <<>>, dirtyCalls |-> <<>>,
      shaderCalls |-> <<>>]

\* the module state after init(ctx, bgColor) and before any other call
M0 == [plane |-> InitPlane, scanlineIntersection |-> EmptyTable(height),
       rgbaShaded |-> "stale", fbCalls |-> <<>>, dirtyCalls |-> <<>>,
       shaderCalls |-> <<>>]

Call(op, in) == [op |-> op, vertices |-> in.vertices, polygon |-> in.polygon,
                 normal |-> in.normal]

Return(m, call) ==
    /\ plane' = m.plane
    /\ scanlineIntersection' = m.scanlineIntersection
    /\ rgbaShaded' = m.rgbaShaded
    /\ fbCalls' = m.fbCalls
    /\ dirtyCalls' = m.dirtyCalls
    /\ shaderCalls' = m.shaderCalls
    /\ calls' = Append(calls, call)
    /\ UNCHANGED <<width, height, pc, frame>>

\* init(ctx, bgColor) on a module just loaded
init(w, h) ==
    /\ width = w
    /\ height = h
    /\ plane = InitPlane
    /\ scanlineIntersection = EmptyTable(h)
    /\ rgbaShaded = "stale"
    /\ fbCalls = <<>>
    /\ dirtyCalls = <<>>
    /\ shaderCalls = <<>>
    /\ calls = <<>>
    /\ pc = "idle"
    /\ frame = NoFrame

DrawLineGiven(inputs, limit) ==
    /\ pc = "idle"
    /\ Len(calls) < limit
    /\ \E in \in inputs :
          Return(drawLineBresenhamGivenStartEndPoint(M, in.vertices[0], in.vertices[1]),
                 Call("line", in))

StrokePolygon(inputs, limit) ==
    /\ pc = "idle"
    /\ Len(calls) < limit
    /\ \E in \in inputs :
          Return(scanlineStrokePolygon(M, in.vertices, in.polygon), Call("stroke", in))

FillPolygon(inputs, limit) ==
    /\ pc = "idle"
    /\ Len(calls) < limit
    /\ \E in \in inputs :
          \E m \in scanlineFillPolygon(M, in.vertices, in.polygon, in.normal) :
             Return(m, Call("fill", in))

\* Calls in any order on a screen of 6 x 6
Init == init(6, 6)
DrawLine == DrawLineGiven(SampleLines, MaxCalls)
Stroke == StrokePolygon(SampleInputs, MaxCalls)
Fill == FillPolygon(SampleInputs, MaxCalls)
Next == DrawLine \/ Stroke \/ Fill
Spec == Init /\ [][Next]_vars

\* One call, with every line and every triangle of the grid, on a screen that
\* the grid exceeds by one on every side
InitGrid == init(MaxCoord, MaxCoord)
LineGrid == DrawLineGiven(GridLines, 1)
StrokeGrid == StrokePolygon(GridTriangles, 1)
FillGrid == FillPolygon(GridTriangles, 1)
NextGrid == LineGrid \/ StrokeGrid \/ FillGrid
SpecGrid == InitGrid /\ [][NextGrid]_vars

----------------------------------------------------------------------------
(* The calls step by step: one action for every pass of a loop.            *)
(* pc is "idle" before the call, "edge" at the head of the loop over the   *)
(* edges (raster.js:189, 258), "line" at the head of the loop of           *)
(* drawLineBresenham (135, 156), "rows" at the head of the loop over the   *)
(* rows (451), "span" at the head of the loop over x (470) and "done" once *)
(* the call has returned.                                                  *)

\* the most recent call, or the call in progress
LastCall == calls[Len(calls)]
After(op) == (calls # <<>>) /\ (LastCall.op = op)

\* the module state in the middle of a call
Cur == [plane |-> plane, scanlineIntersection |-> scanlineIntersection, rgbaShaded |-> rgbaShaded, fbCalls |-> fbCalls, dirtyCalls |-> dirtyCalls, shaderCalls |-> shaderCalls]

Store(m) ==
    /\ plane' = m.plane
    /\ scanlineIntersection' = m.scanlineIntersection
    /\ rgbaShaded' = m.rgbaShaded
    /\ fbCalls' = m.fbCalls
    /\ dirtyCalls' = m.dirtyCalls
    /\ shaderCalls' = m.shaderCalls

NoLine == LineFrame(0, 0, NaN, 0, 0, NaN, Undefined, Undefined)

\* the local variables on entry of a call
Frame0 == [i |-> 0, lastDerivative |-> 0, line |-> NoLine, y |-> 0, k |-> 0, x |-> 0]

\* the call in progress
Op == LastCall.op
Vertices == LastCall.vertices
Polygon == LastCall.polygon

\* scanlineStrokePolygon is entered, raster.js:186-189
BeginStroke(inputs) ==
    /\ pc = "idle"
    /\ \E in \in inputs : calls' = Append(calls, Call("stroke", in))
    /\ pc' = "edge"
    /\ frame' = Frame0
    /\ Store(M)
    /\ UNCHANGED <<width, height>>

\* scanlineFillPolygon is entered and the edge assembler runs up to its loop
\* over the edges, raster.js:435 and 213-248; where the assembler returns
\* early the fill goes on with its loop over the rows
BeginFill(inputs) ==
    /\ pc = "idle"
    /\ \E in \in inputs :
          LET r == calcPlaneEquation(clearIntersections(M), in.vertices, in.polygon, in.normal)
              lastDerivative == LastDerivative(in.vertices, in.polygon, Len(in.polygon) - 1)
          IN  /\ calls' = Append(calls, Call("fill", in))
              /\ Store(r.m)
              /\ frame' = [Frame0 EXCEPT !.lastDerivative = lastDerivative]
              /\ pc' = IF r.ok /\ (lastDerivative # 0) THEN "edge" ELSE "rows"
    /\ UNCHANGED <<width, height>>

\* the frame of drawLineBresenham for edge i of the call in progress
EdgeLine(i) ==
    IF Op = "fill"
    THEN LET ed == EdgeOf(Vertices, Polygon, i)
         IN  Normalized(ed.currX, ed.currY, RInt(0), ed.nextX, ed.nextY, RInt(0), ed.edgeStartVertexIndex, ed.edgeEndVertexIndex)
    ELSE LET st == Vertices[At(Polygon, i)]
             end == Vertices[At(Polygon, IF i < Len(Polygon) - 1 THEN i + 1 ELSE 0)]
         IN  Normalized(ToInt32(st[1]), ToInt32(st[2]), st[3], ToInt32(end[1]), ToInt32(end[2]), end[3], Undefined, Undefined)

\* the edge assembler skips edge i, raster.js:281
Skipped(i) == (Op = "fill") /\ (EdgeOf(Vertices, Polygon, i).derivative = 0)

\* what follows the return of drawLineBresenham for edge i: raster.js:283-289
\* in the edge assembler, nothing in scanlineStrokePolygon
AfterLine(m, i) ==
    IF Op = "fill"
    THEN VertexRecords(m, EdgeOf(Vertices, Polygon, i), frame.lastDerivative)
    ELSE m

\* one pass of the loop over the edges up to the loop of drawLineBresenham,
\* raster.js:189-198 and 258-282 with 77-129
NextEdge ==
    /\ pc = "edge"
    /\ frame.i < Len(Polygon)
    /\ IF Skipped(frame.i)
       THEN /\ frame' = [frame EXCEPT !.i = @ + 1]
            /\ pc' = "edge"
            /\ Store(Cur)
       ELSE LET f == EdgeLine(frame.i)
                m == ResetShaded(Cur, Op = "stroke")
            IN  IF IsPoint(f)
                THEN /\ Store(AfterLine(m, frame.i))
                     /\ frame' = [frame EXCEPT !.i = @ + 1]
                     /\ pc' = "edge"
                ELSE /\ Store(m)
                     /\ frame' = [frame EXCEPT !.line = f]
                     /\ pc' = "line"
    /\ UNCHANGED <<width, height, calls>>

\* one pass of the loop of drawLineBresenham, raster.js:135-150 or 156-171
LinePass ==
    /\ pc = "line"
    /\ LoopCond(frame.line)
    /\ LET r == LoopStep(frame.line, Cur)
       IN  /\ Store(r.m)
           /\ frame' = [frame EXCEPT !.line = r.f]
    /\ UNCHANGED <<width, height, calls, pc>>

\* the loop of drawLineBresenham ends and the pass of the loop over the edges
\* is completed
LineReturn ==
    /\ pc = "line"
    /\ ~LoopCond(frame.line)
    /\ Store(AfterLine(Cur, frame.i))
    /\ frame' = [frame EXCEPT !.i = @ + 1, !.line = NoLine,
                              !.lastDerivative = IF Op = "fill" THEN EdgeOf(Vertices, Polygon, frame.i).derivative ELSE @]
    /\ pc' = "edge"
    /\ UNCHANGED <<width, height, calls>>

\* the loop over the edges ends: scanlineStrokePolygon returns, the fill goes
\* on with its loop over the rows
EdgesDone ==
    /\ pc = "edge"
    /\ ~(frame.i < Len(Polygon))
    /\ pc' = IF Op = "fill" THEN "rows" ELSE "done"
    /\ UNCHANGED <<width, height, calls, frame, plane, scanlineIntersection, rgbaShaded, fbCalls, dirtyCalls, shaderCalls>>

\* one pass of the loop over the rows up to the loop over x, raster.js:451-470
NextRow ==
    /\ pc = "rows"
    /\ frame.y < height
    /\ IF Malformed(Row(scanlineIntersection, frame.y))
       THEN /\ frame' = [frame EXCEPT !.y = @ + 1]
            /\ pc' = "rows"
            /\ UNCHANGED scanlineIntersection
       ELSE \E line \in SortOutcomes(Row(scanlineIntersection, frame.y)) :
               /\ scanlineIntersection' = [scanlineIntersection EXCEPT ![frame.y + 1] = line]
               /\ frame' = [frame EXCEPT !.k = 0, !.x = At(line, 0).x]
               /\ pc' = "span"
    /\ UNCHANGED <<width, height, calls, plane, rgbaShaded, fbCalls, dirtyCalls, shaderCalls>>

\* one pass of the loop over x, raster.js:470-474
SpanPass ==
    /\ pc = "span"
    /\ frame.x < At(Row(scanlineIntersection, frame.y), frame.k + 1).x
    /\ Store(FillPixel(Cur, frame.x, frame.y))
    /\ frame' = [frame EXCEPT !.x = @ + 1]
    /\ UNCHANGED <<width, height, calls, pc>>

\* the loop over x ends: the next pair of the row, or the next row
SpanDone ==
    /\ pc = "span"
    /\ ~(frame.x < At(Row(scanlineIntersection, frame.y), frame.k + 1).x)
    /\ IF frame.k + 2 < Len(Row(scanlineIntersection, frame.y)) - 1
       THEN /\ frame' = [frame EXCEPT !.k = @ + 2, !.x = At(Row(scanlineIntersection, frame.y), frame.k + 2).x]
            /\ pc' = "span"
       ELSE /\ frame' = [frame EXCEPT !.y = @ + 1]
            /\ pc' = "rows"
    /\ UNCHANGED <<width, height, calls, plane, scanlineIntersection, rgbaShaded, fbCalls, dirtyCalls, shaderCalls>>

\* the loop over the rows ends: scanlineFillPolygon returns
RowsDone ==
    /\ pc = "rows"
    /\ ~(frame.y < height)
    /\ pc' = "done"
    /\ UNCHANGED <<width, height, calls, frame, plane, scanlineIntersection, rgbaShaded, fbCalls, dirtyCalls, shaderCalls>>

\* the coordinates of the inputs of the calls made step by step
StepPoints == {Pt(x, y, 0) : x \in 0..MaxStepCoord, y \in 0..MaxStepCoord}
StepTriangles ==
    {Input(<<a, b, c>>, n) : a \in StepPoints, b \in StepPoints, c \in StepPoints,
                             n \in {NormalZ, NoNormal}}

\* One call, step by step, with every triangle of StepPoints, on a screen that
\* the points exceed by one to the right and below. raster.js runs in one
\* thread and no step waits for anything: a call in progress takes its next
\* step, whereas when a call is made is up to the caller
InitStep == init(MaxStepCoord, MaxStepCoord)
StrokeStep == BeginStroke(StepTriangles)
FillStep == BeginFill(StepTriangles)
\* the steps of a call in progress
Running ==
    \/ NextEdge \/ LinePass \/ LineReturn \/ EdgesDone
    \/ NextRow \/ SpanPass \/ SpanDone \/ RowsDone
NextStep == StrokeStep \/ FillStep \/ Running
SpecStep == InitStep /\ [][NextStep]_vars /\ WF_vars(Running)

----------------------------------------------------------------------------
(* Notions the properties are stated in *)

\* the pixels of a sequence of framebuffer.set calls
SetPixels(fb) == {<<fb[i].x, fb[i].y>> : i \in DOMAIN fb}

\* the points (x, y) of the records of a table
RecordPoints(t) == UNION {{<<t[r][i].x, r - 1>> : i \in DOMAIN t[r]} : r \in DOMAIN t}

OnScreen(x, y) == (0 <= x) /\ (x < width) /\ (0 <= y) /\ (y < height)

\* twice the signed area of the triangle of the first three vertices
Area2(vertices) ==
    LET ax == MathFloor(vertices[0][1])
        ay == MathFloor(vertices[0][2])
        bx == MathFloor(vertices[1][1])
        by == MathFloor(vertices[1][2])
        cx == MathFloor(vertices[2][1])
        cy == MathFloor(vertices[2][2])
    IN  (bx - ax) * (cy - ay) - (cx - ax) * (by - ay)

\* the plane of the normal is not seen edge-on
PlaneAccepted(normal) == ~RLess(RAbs(normal[3]), epsilon)

----------------------------------------------------------------------------
(* C1 *)

\* C1: every framebuffer.set that a fillPolygon call issues, for a span or for
\* an edge, has 0 <= x < width and 0 <= y < height
C1_ClipCorrectness ==
    After("fill") => \A i \in DOMAIN fbCalls : OnScreen(fbCalls[i].x, fbCalls[i].y)

----------------------------------------------------------------------------
(* C2 *)

\* C2: on a screen larger than 5 x 5 the fill of the square (0,0,0) (4,0,0)
\* (4,4,0) (0,4,0) with normal (0,0,1) writes exactly the 16 pixels with x and
\* y in 0..3, each with depth 0
C2_RoundTripSquare ==
    ((calls # <<>>) /\ (LastCall = Call("fill", SquareInput)) /\ (width > 5) /\ (height > 5))
    => /\ SetPixels(fbCalls) = (0..3) \X (0..3)
       /\ \A i \in DOMAIN fbCalls : fbCalls[i].z = RInt(0)

----------------------------------------------------------------------------
(* C3 *)

\* C3: drawLine(p0, p1) and drawLine(p1, p0) write the same set of pixels,
\* for all integer end points, vertical lines included
C3_LineSymmetry ==
    (After("line") /\ (Len(calls) = 1))
    => SetPixels(fbCalls) =
       SetPixels(drawLineBresenhamGivenStartEndPoint(
                    M0, LastCall.vertices[1], LastCall.vertices[0]).fbCalls)

----------------------------------------------------------------------------
(* C4 *)

\* C4: after the edge assembler has run on a triangle with integer vertices,
\* an area that is not zero and a plane that is not seen edge-on, every row
\* of the table that is not empty holds an even number of records, at least 2
C4_EvenCrossings ==
    (After("fill") /\ (Len(LastCall.polygon) = 3) /\ (Area2(LastCall.vertices) # 0)
       /\ PlaneAccepted(LastCall.normal))
    => \A y \in 0..(height - 1) :
          LET n == Len(Row(scanlineIntersection, y))
          IN  (n = 0) \/ ((n >= 2) /\ (n % 2 = 0))

\* a triangle of which one vertex lies above the screen, one below it and
\* one on it, so that rows are clipped and no row of the screen is empty
C4_Witness ==
    /\ After("fill") /\ (Len(LastCall.polygon) = 3) /\ (Area2(LastCall.vertices) # 0)
    /\ PlaneAccepted(LastCall.normal)
    /\ \E i \in 0..2 : MathFloor(LastCall.vertices[i][2]) < 0
    /\ \E i \in 0..2 : MathFloor(LastCall.vertices[i][2]) >= height
    /\ \E i \in 0..2 : MathFloor(LastCall.vertices[i][2]) \in 0..(height - 1)
    /\ \A y \in 0..(height - 1) : Len(Row(scanlineIntersection, y)) = 2

----------------------------------------------------------------------------
(* C5 *)

\* C5: the points (x, y) of the records that drawLine adds for an edge are the
\* same whether the edge is walked from p0 to p1 or from p1 to p0
C5_SharedEdge ==
    (After("line") /\ (Len(calls) = 1))
    => RecordPoints(scanlineIntersection) =
       RecordPoints(drawLineBresenhamGivenStartEndPoint(
                       M0, LastCall.vertices[1], LastCall.vertices[0]).scanlineIntersection)

\* a line from right to left that adds records on more than one row
C5_Witness ==
    /\ After("line") /\ (Len(calls) = 1)
    /\ LastCall.vertices[1][1][1] < LastCall.vertices[0][1][1]
    /\ Cardinality(RecordPoints(scanlineIntersection)) >= 2

----------------------------------------------------------------------------
(* Replaying calls *)

\* the module state m at the start of the next call
Fresh(m) == [m EXCEPT !.fbCalls = <<>>, !.dirtyCalls = <<>>, !.shaderCalls = <<>>]

\* the results of call c made in module state m
RunCall(m, c) ==
    IF c.op = "line"
    THEN {drawLineBresenhamGivenStartEndPoint(m, c.vertices[0], c.vertices[1])}
    ELSE IF c.op = "stroke"
    THEN {scanlineStrokePolygon(m, c.vertices, c.polygon)}
    ELSE scanlineFillPolygon(m, c.vertices, c.polygon, c.normal)

\* the results of the calls cs made one after the other, from init() on
RECURSIVE Replay(_)
Replay(cs) ==
    IF cs = <<>> THEN {M0}
    ELSE UNION {RunCall(Fresh(m), cs[Len(cs)]) : m \in Replay(SubSeq(cs, 1, Len(cs) - 1))}

----------------------------------------------------------------------------
(* C6 *)

\* the last call is a fill that follows a fill of a polygon seen edge-on
AfterRejectedThenFill ==
    /\ Len(calls) >= 2
    /\ calls[Len(calls) - 1].op = "fill"
    /\ ~PlaneAccepted(calls[Len(calls) - 1].normal)
    /\ LastCall.op = "fill"
    /\ PlaneAccepted(LastCall.normal)

\* C6: the fill of a polygon whose normal has |C| < 0.001 writes no pixel and
\* leaves the table empty, and the fill that follows it writes the pixels and
\* depths that it writes when the rejected fill is left out of the calls
C6_PlaneRejection ==
    /\ (After("fill") /\ ~PlaneAccepted(LastCall.normal))
       => (fbCalls = <<>>) /\ (scanlineIntersection = EmptyTable(height))
    /\ AfterRejectedThenFill
       => fbCalls \in {m.fbCalls :
                       m \in Replay(Append(SubSeq(calls, 1, Len(calls) - 2), LastCall))}

\* a fill that writes depths other than 0 right after a rejected fill
C6_Witness ==
    /\ AfterRejectedThenFill
    /\ \E i \in DOMAIN fbCalls : fbCalls[i].applyDepthTest /\ (fbCalls[i].z # RInt(0))

----------------------------------------------------------------------------
(* C7 *)

\* the end points of edge i of the last call, as the call converts them
EdgeEnds(i) ==
    LET c == LastCall
        j == IF i = Len(c.polygon) - 1 THEN 0 ELSE i + 1
        a == c.vertices[At(c.polygon, i)]
        b == c.vertices[At(c.polygon, j)]
    IN  IF c.op = "fill"
        THEN <<MathFloor(a[1]), MathFloor(a[2]), MathFloor(b[1]), MathFloor(b[2])>>
        ELSE <<ToInt32(a[1]), ToInt32(a[2]), ToInt32(b[1]), ToInt32(b[2])>>

\* the last call has walked the edges of its polygon
EdgesWalked ==
    \/ After("stroke")
    \/ /\ After("fill")
       /\ PlaneAccepted(LastCall.normal)
       /\ LastDerivative(LastCall.vertices, LastCall.polygon, Len(LastCall.polygon) - 1) # 0

\* the line from (p[1], p[2]) to (p[3], p[4]) drawn on a module just initialized
LineAlone(p) ==
    drawLineBresenham(M0, p[1], p[2], RInt(0), p[3], p[4], RInt(0), TRUE, Undefined, Undefined)

\* C7: an edge with y0 = y1 and x0 # x1 adds no record to the table and its
\* pixels are written to the framebuffer, when the polygon is stroked and when
\* the edge assembler walks the edge during a fill
C7_HorizontalEdges ==
    EdgesWalked
    => \A i \in 0..(Len(LastCall.polygon) - 1) :
          LET p == EdgeEnds(i)
          IN  ((p[2] = p[4]) /\ (p[1] # p[3]))
              => /\ LineAlone(p).scanlineIntersection = EmptyTable(height)
                 /\ SetPixels(LineAlone(p).fbCalls) \subseteq SetPixels(fbCalls)

----------------------------------------------------------------------------
(* C9 *)

\* the pairs of records that a fill has filled: record i and i + 1 of a row
\* that passes the safety check, i = 0, 2, 4, ...
FilledPairs ==
    {<<y, i>> \in (0..(height - 1)) \X (0..(2 * Len(LastCall.polygon))) :
        /\ ~Malformed(Row(scanlineIntersection, y))
        /\ i % 2 = 0
        /\ i < Len(Row(scanlineIntersection, y)) - 1}

CallsOf(fn) == {i \in DOMAIN shaderCalls : shaderCalls[i].fn = fn}

\* C9: during a fill the prepare callback of the shader is invoked once for
\* every pair of records that is filled, and the step callback once after
\* every pixel of a span
C9_InterpolationProtocol ==
    After("fill")
    => /\ Cardinality(CallsOf("prepareScanline")) = Cardinality(FilledPairs)
       /\ Cardinality(CallsOf("stepOnScanline")) =
          Cardinality({i \in DOMAIN fbCalls : fbCalls[i].applyDepthTest})

----------------------------------------------------------------------------
(* C10 *)

\* C10: after any sequence of calls the table holds the records of the
\* polygon or line of the most recent call and no other
C10_TableLifetime ==
    (calls # <<>>)
    => scanlineIntersection \in {m.scanlineIntersection : m \in RunCall(M0, LastCall)}

----------------------------------------------------------------------------
(* C8 *)

\* edge i of the call in progress has length zero
ZeroLength(i) ==
    LET f == EdgeLine(i) IN (f.startX = f.endX) /\ (f.startY = f.endY)

\* the call made step by step has the result of the call made at once
StepAgreesWithCall ==
    (pc = "done") => (Cur \in RunCall(M0, LastCall))

\* C8: strokePolygon and fillPolygon terminate for every polygon, degenerate
\* ones included; an edge of length zero returns before the loop of
\* drawLineBresenham and writes no pixel; the loop of drawLineBresenham ends
\* with x and y at the end point
C8_Termination ==
    /\ (pc # "idle") ~> (pc = "done")
    /\ [][((pc = "edge") /\ (frame.i < Len(Polygon)) /\ ZeroLength(frame.i))
          => ((pc' = "edge") /\ (fbCalls' = fbCalls))]_vars
    /\ []((pc = "line" /\ ~LoopCond(frame.line))
          => ((frame.line.x = frame.line.endX) /\ (frame.line.y = frame.line.endY)))

\* the fill of a triangle with two coincident vertices has returned: it has
\* skipped the edge of length zero and has drawn the two other edges
C8_Witness ==
    /\ pc = "done"
    /\ Op = "fill"
    /\ Vertices[0] = Vertices[1]
    /\ Vertices[1] # Vertices[2]
    /\ frame.i = Len(Polygon)
    /\ fbCalls # <<>>

----------------------------------------------------------------------------
(* C11 *)

\* one call of drawLineBresenhamGivenStartEndPoint has been made
OneLine == After("line") /\ (Len(calls) = 1)

\* the end points of the line of the call, as raster.js:58 passes them on
LineX0 == ToInt32(LastCall.vertices[0][1])
LineY0 == ToInt32(LastCall.vertices[0][2])
LineX1 == ToInt32(LastCall.vertices[1][1])
LineY1 == ToInt32(LastCall.vertices[1][2])

\* the x of the pixels that the call has written on row y
PixelsOnRow(y) == {fbCalls[i].x : i \in {j \in DOMAIN fbCalls : fbCalls[j].y = y}}

\* row y lies strictly between the rows of the two end points
Interior(y) ==
    \/ (LineY0 < y) /\ (y < LineY1)
    \/ (LineY1 < y) /\ (y < LineY0)

\* C11: a line with y0 # y1 whose rows lie in [0, height) adds exactly one
\* record for each row strictly between y0 and y1, with the smallest x among
\* the pixels that the call writes on that row, and no record on row y0 or y1
C11_InteriorRows ==
    (OneLine /\ (LineY0 # LineY1) /\ (LineY0 \in 0..(height - 1)) /\ (LineY1 \in 0..(height - 1)))
    => \A y \in 0..(height - 1) :
          LET line == Row(scanlineIntersection, y)
          IN  IF Interior(y)
              THEN /\ Len(line) = 1
                   /\ At(line, 0).x \in PixelsOnRow(y)
                   /\ \A x \in PixelsOnRow(y) : At(line, 0).x <= x
              ELSE line = <<>>

\* a line with x as driving variable has written more than one pixel on the
\* row between its end points and has added one record on that row
C11_Witness ==
    /\ OneLine
    /\ {LineY0, LineY1} = {0, 2}
    /\ Abs(LineX1 - LineX0) > 2
    /\ Cardinality(PixelsOnRow(1)) >= 2
    /\ Len(Row(scanlineIntersection, 1)) = 1

----------------------------------------------------------------------------
(* C12 *)

\* the vertices of the polygon of the last call, as the edge assembler reads
\* them
VertexPoints ==
    {<<EdgeEnds(i)[1], EdgeEnds(i)[2]>> : i \in 0..(Len(LastCall.polygon) - 1)}

\* C12: drawLineBresenham called with storeIntersectionForScanlineFill = false
\* leaves the table as it is, so after the edge assembler has walked the edges
\* of a fill every record of the table lies on a vertex of the polygon
C12_FlagGatesRecording ==
    (After("fill") /\ EdgesWalked)
    => /\ \A i \in 0..(Len(LastCall.polygon) - 1) :
             LET ed == EdgeOf(LastCall.vertices, LastCall.polygon, i)
             IN  DrawEdge(M0, ed).scanlineIntersection = M0.scanlineIntersection
       /\ RecordPoints(scanlineIntersection) \subseteq VertexPoints

----------------------------------------------------------------------------
(* C13 *)

\* the line of the call after the exchange of raster.js:77-79
LineNormalized ==
    Normalized(LineX0, LineY0, LastCall.vertices[0][3], LineX1, LineY1, LastCall.vertices[1][3], Undefined, Undefined)

\* C13: a line between two different points makes max(|dx|, |dy|) pixel
\* writes, the last of them at the end point of the line after the exchange
\* of its end points, and none at its start point
C13_EndPointExact ==
    (OneLine /\ ((LineX0 # LineX1) \/ (LineY0 # LineY1)))
    => LET f == LineNormalized
           n == IF f.dXAbs >= f.dYAbs THEN f.dXAbs ELSE f.dYAbs
       IN  /\ Len(fbCalls) = n
           /\ fbCalls[n].x = f.endX
           /\ fbCalls[n].y = f.endY
           /\ <<f.startX, f.startY>> \notin SetPixels(fbCalls)

\* a line whose end points were exchanged, neither horizontal nor vertical nor
\* diagonal, has written three pixels or more, one of them off the screen
C13_Witness ==
    /\ OneLine
    /\ LineX1 < LineX0
    /\ LineY0 # LineY1
    /\ Abs(LineX1 - LineX0) # Abs(LineY1 - LineY0)
    /\ Len(fbCalls) >= 3
    /\ \E i \in DOMAIN fbCalls : ~OnScreen(fbCalls[i].x, fbCalls[i].y)
    /\ fbCalls[Len(fbCalls)].x = LineX0
    /\ fbCalls[Len(fbCalls)].y = LineY0

====
